---- MODULE Spec2Model ----
(***************************************************************************)
(* streamable-topic: the MongoRedis producer and consumer, and the topic   *)
(* setter that is layered over a consumer and a producer.                  *)
(*                                                                         *)
(* A topic is a mongo collection of message documents keyed by a numeric   *)
(* _id taken from a counter document ("nextids").  Producers allocate an   *)
(* id, insert the document and publish a wake signal on redis.  A consumer *)
(* runs a 1 s interval that, while isMoreMessages is set, fetches the      *)
(* documents after its cursor (lastId) and hands them to messageCallback.  *)
(*                                                                         *)
(* Every await of the source is a point where other handlers and other     *)
(* processes may run; the code between two awaits is one action.           *)
(***************************************************************************)
EXTENDS Integers, Sequences, FiniteSets, TLC

\* ------------------------------------------------------------------ bounds
\* pushMessageToTopic calls that get an id in one run, by all producers together
MaxPushes == 3
\* the page size of one fetch; the source asks for 100, scaled to the run
FetchLimit == 2

\* wake signals on their way to the consumer at once, where extra ones are sent
MaxExtraWakes == 2
\* firings of the interval that are counted
MaxTicks == 3

\* setLogCompactedPayload / setPayload calls that are accepted in one run
MaxSetCalls == 3
\* the milliseconds the clock of the setter's process advances in one run
MaxClock == 1
\* the rejected finds that are counted
MaxFetchErrors == 2

Producers == {"p1", "p2"}
ShardingKeys == {"ka", "kb"}
\* lastId is "null | number | string"; null is kept apart from every id
NullId == -1
\* the cursors a caller hands to streamMessagesFrom
FromIds == {NullId, 1}
\* what one invocation of the user's messageCallback may do before it returns:
\* return, throw, or call stop() on the consumer and return
Outcomes == {"ok", "throw", "stop"}
\* the callback is an async function: it returns a promise that settles later.
\* The loop drops the promise, so to the consumer's fields this is "ok"; the
\* promise itself is followed in SpecAsync.
AsyncOutcomes == {"suspend"}

VARIABLES
    \* --- mongo
    seq,            \* nextids.seq of the topic (0: no counter document yet)
    col,            \* the topic collection: a set of message documents
    \* --- producers
    pStart,         \* [p -> position in start()]
    pStopped,       \* [p -> isStopped]
    pPc,            \* [p -> position in pushMessageToTopic]
    pDoc,           \* [p -> the document of the push in flight]
    pPushes,        \* [p -> number of pushes that got an id]
    pPublishing,    \* [p -> redis.publish calls in flight]
    pRetry,         \* [p -> pending 10 s retry timers]
    pErr,           \* [p -> the error of the last public call that was refused]
    \* --- redis
    tokens,         \* wake signals on their way to the consumer
    link,           \* the consumer's redis connection
    \* --- consumer
    cStart,         \* position in start()
    isStreaming,
    isPolling,
    isMoreMessages,
    isStopped,
    hasCalledNoMoreMessages,
    pollingLoop,    \* TRUE: the interval is installed
    lastId,
    cPc,            \* position in pollForNewMessages
    batch,          \* newMessages: the fetched documents not yet looped over
    \* --- what the user's callbacks saw
    fromId,         \* the cursor given to streamMessagesFrom
    delivered,      \* the messages passed to messageCallback, in call order
    pendingCb,      \* ids whose messageCallback promise has not settled
    rejectedCb,     \* ids whose messageCallback promise rejected
    drainedCalls,   \* invocations of noMoreMessagesCallback
    crashedCalls,   \* invocations of crashCallback
    crashedWith,    \* the id whose callback threw (NullId: none)
    crashCbThrew,   \* crashCallback itself threw
    ticks,          \* firings of the interval since streamMessagesFrom, where counted
    cErr,           \* the error of the consumer's last public call that was refused
    fetchErrors,    \* finds of the consumer that rejected, where counted
    \* --- topic setter
    history,        \* the records the topic held when the setter started
    sConsumer,      \* the consumer the setter streams from ("none": start() not called)
    sEchoed,        \* topic records the consumer has handed to processMessage
    sDrained,       \* the consumer has called what it holds as its drained callback
    isReady,
    memoryHash,     \* [logCompactId -> hash of the payload last consumed]
    messagesToApply,\* the Record's values in property order: [logCompactId, payload, queuedAt]
    messagesToPush,
    isProducingMessages,
    lastTriggered,
    thisTriggered,  \* of the triggerWaitingMessages call that holds the lock
    sPc,            \* position in produceWaitingMessages
    next,           \* the entry whose push is awaited
    newMessages,    \* the sorted copy of the compacted entries still to push
    now,            \* new Date()
    pushCalls,      \* producer.pushMessageToTopic calls that resolved, in order
    sErr,           \* the error of the setter's last public call that was refused
    setCalls,       \* the accepted setLogCompactedPayload / setPayload calls, in order
    triggeredWhileProducing \* a trigger call returned at the lock since it was taken

storeVars == <<seq, col>>
producerVars == <<pStart, pStopped, pPc, pDoc, pPushes, pPublishing, pRetry, pErr>>
busVars == <<tokens, link>>
consumerVars == <<cStart, isStreaming, isPolling, isMoreMessages, isStopped,
                  hasCalledNoMoreMessages, pollingLoop, lastId, cPc, batch>>
userVars == <<fromId, delivered, pendingCb, rejectedCb, drainedCalls,
              crashedCalls, crashedWith, crashCbThrew, ticks>>
\* what the scenarios of the later sections add to the state
setterVars == <<history, sConsumer, sEchoed, sDrained, isReady, memoryHash,
                messagesToApply, messagesToPush, isProducingMessages, lastTriggered,
                thisTriggered, sPc, next, newMessages, now, pushCalls, sErr, setCalls,
                triggeredWhileProducing>>
extraVars == <<cErr, fetchErrors, setterVars>>
\* everything but the topic setter
coreVars == <<storeVars, producerVars, busVars, consumerVars, userVars, cErr,
              fetchErrors>>
vars == <<storeVars, producerVars, busVars, consumerVars, userVars, extraVars>>

\* ----------------------------------------------------------------- helpers
Min(a, b) == IF a < b THEN a ELSE b

\* the find without its sort: the order is the store's choice, here descending
RECURSIVE SortById_Unsorted(_)
SortById_Unsorted(S) ==
    IF S = {} THEN <<>>
    ELSE LET m == CHOOSE d \in S : \A e \in S : d._id >= e._id
         IN  <<m>> \o SortById_Unsorted(S \ {m})

\* sort({_id: 1}): ascending by _id
RECURSIVE SortById(_)
SortById(S) ==
    IF S = {} THEN <<>>
    ELSE LET m == CHOOSE d \in S : \A e \in S : d._id <= e._id
         IN  <<m>> \o SortById(S \ {m})

\* thisQuery: every document when lastId is null, else {_id: {$gt: lastId}}
ThisQuery(after) == {d \in col : after = NullId \/ d._id > after}

\* a find that pages from the start of the collection whatever the cursor
FetchNextMessagesFromMongo_NoCursor(limit, after) ==
    LET sorted == SortById(col)
    IN  SubSeq(sorted, 1, Min(limit, Len(sorted)))

\* col.find(thisQuery).limit(limit).sort({_id: 1}).toArray()
FetchNextMessagesFromMongo(limit, after) ==
    LET sorted == SortById(ThisQuery(after))
    IN  SubSeq(sorted, 1, Min(limit, Len(sorted)))

\* { ...msg, _id: undefined, id: msg._id }; delete topicMsg._id
TopicMsg(msg) ==
    [id |-> msg._id, payload |-> msg.payload, shardingKey |-> msg.shardingKey]

\* the producer's fields, read off its position in start()
ProducerClient(p) == pStart[p] = "ready"
ProducerRedis(p) == pStart[p] = "ready"
\* the consumer's fields, read off its position in start()
isStarting == cStart # "new"
ConsumerClient == cStart \in {"redis", "done"}
ConsumerRedis == cStart = "done"
\* the consumer's connection is up and holds the channel subscription
subscribed == link = "up"

\* pushes that got an id so far
RECURSIVE SumOver(_, _)
SumOver(f, S) ==
    IF S = {} THEN 0
    ELSE LET x == CHOOSE y \in S : TRUE IN f[x] + SumOver(f, S \ {x})
PushCalls == SumOver(pPushes, Producers)

NoDoc == [_id |-> NullId, payload |-> <<>>, shardingKey |-> ""]
NoError == ""

\* --- topic setter
CompactIds == {"u1", "u2"}
\* payloads: "a" holds a Date, "a_iso" the ISO string of that date in its
\* place, "b" differs from both
Payloads == {"a", "a_iso", "b"}
\* the payloads given to setPayload
AppendPayloads == {"a", "b"}
\* a parameter that was not passed, a property that is not there
Undefined == "undefined"
\* the consumers a setter can be constructed with: one that implements the
\* abstract TopicConsumer as declared, and MongoRedisTopicConsumer
Backends == {"contract", "mongoRedis"}
\* what the topic holds before the setter starts: nothing, or one compacted
\* message of another writer
Histories ==
    {<<>>, <<[payload |-> "b", shardingKey |-> "k", logCompactId |-> "u1"]>>}
\* the topics a replay is checked on: every sequence of at most MaxHistory
\* records, each with or without a logCompactId
MaxHistory == 2
ReplayMessages ==
    {[payload |-> p, shardingKey |-> "k", logCompactId |-> c] :
        p \in AppendPayloads, c \in CompactIds \cup {Undefined}}
ReplayHistories == UNION {[1..n -> ReplayMessages] : n \in 0..MaxHistory}
NoEntry == [logCompactId |-> Undefined, payload |-> Undefined, queuedAt |-> -1]

\* -------------------------------------------------------------------- Init
Init ==
    /\ seq = 0
    /\ col = {}
    /\ pStart = [p \in Producers |-> "new"]
    /\ pStopped = [p \in Producers |-> FALSE]
    /\ pPc = [p \in Producers |-> "idle"]
    /\ pDoc = [p \in Producers |-> NoDoc]
    /\ pPushes = [p \in Producers |-> 0]
    /\ pPublishing = [p \in Producers |-> 0]
    /\ pRetry = [p \in Producers |-> 0]
    /\ pErr = [p \in Producers |-> NoError]
    /\ tokens = 0
    /\ link = "none"
    /\ cStart = "new"
    /\ isStreaming = FALSE
    /\ isPolling = FALSE
    /\ isMoreMessages = TRUE
    /\ isStopped = FALSE
    /\ hasCalledNoMoreMessages = FALSE
    /\ pollingLoop = FALSE
    /\ lastId = NullId
    /\ cPc = "idle"
    /\ batch = <<>>
    /\ fromId = NullId
    /\ delivered = <<>>
    /\ pendingCb = {}
    /\ rejectedCb = {}
    /\ drainedCalls = 0
    /\ crashedCalls = 0
    /\ crashedWith = NullId
    /\ crashCbThrew = FALSE
    /\ ticks = 0
    /\ cErr = NoError
    /\ fetchErrors = 0
    /\ history = <<>>
    /\ sConsumer = "none"
    /\ sEchoed = 0
    /\ sDrained = FALSE
    /\ isReady = FALSE
    /\ memoryHash = [id \in CompactIds |-> Undefined]
    /\ messagesToApply = <<>>
    /\ messagesToPush = <<>>
    /\ isProducingMessages = FALSE
    /\ lastTriggered = 0
    /\ thisTriggered = 0
    /\ sPc = "idle"
    /\ next = NoEntry
    /\ newMessages = <<>>
    /\ now = 0
    /\ pushCalls = <<>>
    /\ sErr = NoError
    /\ setCalls = <<>>
    /\ triggeredWhileProducing = FALSE

\* ---------------------------------------------------------------- producer
\* start() refuses a producer that is not stopped
StartError_IgnoresStarted(p) ==
    IF pStopped[p] THEN "Already stopped" ELSE NoError

\* the error start() throws before it does anything, NoError when it goes on
StartError(p) ==
    IF pStopped[p] THEN "Already stopped"
    ELSE IF pStart[p] # "new" THEN "Already started"
    ELSE NoError

\* start(): the guards, isStarting = true, then await mcc.start()
ProducerStart(p) ==
    /\ StartError(p) = NoError
    /\ pStart' = [pStart EXCEPT ![p] = "starting"]
    /\ UNCHANGED <<extraVars, pErr, storeVars, pStopped, pPc, pDoc, pPushes, pPublishing, pRetry,
                   busVars, consumerVars, userVars>>

\* mcc.start() and rrc.start() resolved: this.client and this.redis are set
ProducerStarted(p) ==
    /\ pStart[p] = "starting"
    /\ pStart' = [pStart EXCEPT ![p] = "ready"]
    /\ UNCHANGED <<extraVars, pErr, storeVars, pStopped, pPc, pDoc, pPushes, pPublishing, pRetry,
                   busVars, consumerVars, userVars>>

\* start() throws at its guards
ProducerStartRefused(p) ==
    /\ StartError(p) # NoError
    /\ pErr' = [pErr EXCEPT ![p] = StartError(p)]
    /\ UNCHANGED <<extraVars, storeVars, pStart, pStopped, pPc, pDoc, pPushes, pPublishing, pRetry,
                   busVars, consumerVars, userVars>>

\* the error stop() throws before it does anything, NoError when it goes on
StopError(p) == IF pStopped[p] THEN "Already stopped" ELSE NoError

\* stop()
ProducerStop(p) ==
    /\ StopError(p) = NoError
    /\ pStopped' = [pStopped EXCEPT ![p] = TRUE]
    /\ UNCHANGED <<extraVars, pErr, storeVars, pStart, pPc, pDoc, pPushes, pPublishing, pRetry,
                   busVars, consumerVars, userVars>>

\* returnDocument "before": the value the counter had, 1 on a fresh topic
NextSeq_NoIncrement(s) == IF s = 0 THEN 1 ELSE s

\* an id taken from the collection instead of the counter: one above the
\* highest id stored
NextSeq_FromCollection(s) ==
    IF col = {} THEN 1
    ELSE 1 + (CHOOSE n \in {d._id : d \in col} : \A d \in col : d._id <= n)

\* a counter that hands out its ids downwards
NextSeq_Downwards(s) == IF s = 0 THEN MaxPushes ELSE s - 1

\* stop() throws at its guard
ProducerStopRefused(p) ==
    /\ StopError(p) # NoError
    /\ pErr' = [pErr EXCEPT ![p] = StopError(p)]
    /\ UNCHANGED <<extraVars, storeVars, pStart, pStopped, pPc, pDoc, pPushes, pPublishing, pRetry,
                   busVars, consumerVars, userVars>>

\* findOneAndUpdate({$inc: {seq: 1}}, {returnDocument: "after", upsert: true})
NextSeq(s) == s + 1

\* pushMessageToTopic without its isStopped guard
PushError_IgnoresStopped(p) ==
    IF ~ProducerClient(p) THEN "this.client is null" ELSE NoError

\* the error pushMessageToTopic throws before its first await (isStopped, then
\* getCollection), NoError when it goes on
PushError(p) ==
    IF pStopped[p] THEN "Already stopped"
    ELSE IF ~ProducerClient(p) THEN "this.client is null"
    ELSE NoError

\* pushMessageToTopic up to "await col.insertOne(msgDoc)": the guards,
\* getNextId() and the document built around the id it returned.  The caller
\* awaits one push before the next (pPc = "idle").
PushMessageToTopic(p, key) ==
    /\ PushError(p) = NoError
    /\ pPc[p] = "idle"
    /\ PushCalls < MaxPushes
    /\ seq' = NextSeq(seq)
    /\ pPc' = [pPc EXCEPT ![p] = "insertOne"]
    /\ pPushes' = [pPushes EXCEPT ![p] = @ + 1]
    /\ pDoc' = [pDoc EXCEPT ![p] =
                  [_id |-> NextSeq(seq), payload |-> <<p, pPushes[p] + 1>>,
                   shardingKey |-> key]]
    /\ UNCHANGED <<extraVars, pErr, col, pStart, pStopped, pPublishing, pRetry,
                   busVars, consumerVars, userVars>>

\* pushMessageToTopic throws at its guards
PushRefused(p) ==
    /\ PushError(p) # NoError
    /\ pPc[p] = "idle"
    /\ pErr' = [pErr EXCEPT ![p] = PushError(p)]
    /\ UNCHANGED <<extraVars, storeVars, pStart, pStopped, pPc, pDoc, pPushes, pPublishing, pRetry,
                   busVars, consumerVars, userVars>>

\* pushMessageToTopic when getNextId() throws (result not ok, or the store is
\* away): the push fails and the counter is as it was
GetNextIdFailed(p) ==
    /\ ~pStopped[p]
    /\ ProducerClient(p)
    /\ pPc[p] = "idle"
    /\ UNCHANGED vars

\* a broadcast that does not look at isStopped
BroadcastSends_IgnoresStop(p) == ProducerRedis(p)

\* broadcastNewMessageSignalToRedis up to "await this.redis.publish": TRUE
\* when a publish is sent, FALSE when the guards throw (into a promise
\* nobody awaits)
BroadcastSends(p) == ~pStopped[p] /\ ProducerRedis(p)

\* a push that awaits the publish it started before it returns
AfterAck_AwaitsPublish(p) == IF BroadcastSends(p) THEN "publish" ELSE "idle"

\* where pushMessageToTopic stands once insertOne is acknowledged: the
\* broadcast is called without await, the push has returned
AfterAck(p) == "idle"

\* insertOne is acknowledged: the document is in the collection, the push
\* calls broadcastNewMessageSignalToRedis and returns
InsertOne(p) ==
    /\ pPc[p] = "insertOne"
    /\ \A d \in col : d._id # pDoc[p]._id
    /\ col' = col \cup {pDoc[p]}
    /\ pPc' = [pPc EXCEPT ![p] = AfterAck(p)]
    /\ pDoc' = [pDoc EXCEPT ![p] = NoDoc]
    /\ pPublishing' = [pPublishing EXCEPT ![p] = IF BroadcastSends(p) THEN @ + 1 ELSE @]
    /\ UNCHANGED <<extraVars, pErr, seq, pStart, pStopped, pPushes, pRetry,
                   busVars, consumerVars, userVars>>

\* insertOne throws or is not acknowledged: the push fails, nothing is
\* broadcast, the id is not used again
InsertOneFailed(p) ==
    /\ pPc[p] = "insertOne"
    /\ pPc' = [pPc EXCEPT ![p] = "idle"]
    /\ pDoc' = [pDoc EXCEPT ![p] = NoDoc]
    /\ UNCHANGED <<extraVars, pErr, storeVars, pStart, pStopped, pPushes, pPublishing, pRetry,
                   busVars, consumerVars, userVars>>

\* redis.publish resolves: subscribers of the channel get the message
PublishDone(p) ==
    /\ pPublishing[p] > 0
    /\ pPublishing' = [pPublishing EXCEPT ![p] = @ - 1]
    /\ tokens' = IF subscribed THEN tokens + 1 ELSE tokens
    /\ UNCHANGED <<extraVars, pErr, storeVars, pStart, pStopped, pPc, pDoc, pPushes, pRetry,
                   link, consumerVars, userVars>>

\* redis.publish rejects: setTimeout(retry, 10 s)
PublishFailed(p) ==
    /\ pPublishing[p] > 0
    /\ pPublishing' = [pPublishing EXCEPT ![p] = @ - 1]
    /\ pRetry' = [pRetry EXCEPT ![p] = @ + 1]
    /\ UNCHANGED <<extraVars, pErr, storeVars, pStart, pStopped, pPc, pDoc, pPushes,
                   busVars, consumerVars, userVars>>

\* the retry timer fires: broadcastNewMessageSignalToRedis again
PublishRetry(p) ==
    /\ pRetry[p] > 0
    /\ pRetry' = [pRetry EXCEPT ![p] = @ - 1]
    /\ pPublishing' = [pPublishing EXCEPT ![p] = IF BroadcastSends(p) THEN @ + 1 ELSE @]
    /\ UNCHANGED <<extraVars, pErr, storeVars, pStart, pStopped, pPc, pDoc, pPushes,
                   busVars, consumerVars, userVars>>

\* ------------------------------------------------------------------- redis
\* What redis.disconnect(false) in stop() does to the subscription; nothing
\* while this.redis is still null.
StopBus ==
    IF ConsumerRedis
    THEN link' = "closed" /\ tokens' = 0
    ELSE UNCHANGED busVars

\* the consumer's connection drops: the subscription and the messages on their
\* way are gone (autoResubscribe: false)
BusDisconnected ==
    /\ link = "up"
    /\ cStart = "done"
    /\ link' = "down"
    /\ tokens' = 0
    /\ UNCHANGED <<extraVars, storeVars, producerVars, consumerVars, userVars>>

\* 'ready' after a disconnection: the RECONNECTED event, whose callback
\* awaits startListeningForNewMessageSignal()
BusReconnected ==
    /\ link = "down"
    /\ link' = "resub"
    /\ UNCHANGED <<extraVars, tokens, storeVars, producerVars, consumerVars, userVars>>

\* the subscribe of the RECONNECTED callback resolved: isMoreMessages = true
Resubscribed ==
    /\ link = "resub"
    /\ cPc # "delivering"
    /\ link' = "up"
    /\ isMoreMessages' = TRUE
    /\ UNCHANGED <<extraVars, tokens, storeVars, producerVars, cStart, isStreaming, isPolling,
                   isStopped, hasCalledNoMoreMessages, pollingLoop, lastId, cPc, batch,
                   userVars>>

\* the subscribe of the RECONNECTED callback rejected, with the connection
\* still ready or lost again: the callback's promise rejects at its await and
\* the assignment after it is not reached
ResubscribeFailed(stillConnected) ==
    /\ link = "resub"
    /\ cPc # "delivering"
    /\ link' = IF stillConnected THEN "ready" ELSE "down"
    /\ UNCHANGED <<extraVars, tokens, storeVars, producerVars, consumerVars, userVars>>

\* redis.on("message"): the wake signal
WakeSignal ==
    /\ tokens > 0
    /\ cPc # "delivering"
    /\ tokens' = tokens - 1
    /\ isMoreMessages' = TRUE
    /\ UNCHANGED <<extraVars, link, storeVars, producerVars, cStart, isStreaming,
                   isPolling, isStopped, hasCalledNoMoreMessages, pollingLoop, lastId,
                   cPc, batch, userVars>>

\* a message published on the topic's channel that no push stands behind: the
\* "message" handler does not read it, any message is a wake signal
ExtraWake ==
    /\ subscribed
    /\ tokens < MaxExtraWakes
    /\ tokens' = tokens + 1
    /\ UNCHANGED <<extraVars, link, storeVars, producerVars, consumerVars, userVars>>

\* ---------------------------------------------------------------- consumer
\* the error the consumer's start() throws before it does anything
ConsumerStartError == IF isStarting THEN "Already started" ELSE NoError

\* start(): the guard, isStarting = true, then await mcc.start()
ConsumerStart ==
    /\ ConsumerStartError = NoError
    /\ cStart' = "mongo"
    /\ UNCHANGED <<extraVars, storeVars, producerVars, busVars, isStreaming, isPolling,
                   isMoreMessages, isStopped, hasCalledNoMoreMessages, pollingLoop,
                   lastId, cPc, batch, userVars>>

\* mcc.start() resolved: this.client is set, then await rrc.start(callback)
ConsumerMongoReady ==
    /\ cStart = "mongo"
    /\ cStart' = "redis"
    /\ UNCHANGED <<extraVars, storeVars, producerVars, busVars, isStreaming, isPolling,
                   isMoreMessages, isStopped, hasCalledNoMoreMessages, pollingLoop,
                   lastId, cPc, batch, userVars>>

\* the FIRST_READY event (this.redis is still null: isMoreMessages = true
\* only), then rrc.start() resolves: this.redis is set, the "message" handler
\* is registered, the channel is subscribed and start() returns
ConsumerRedisReady ==
    /\ cStart = "redis"
    /\ cPc # "delivering"
    /\ cStart' = "done"
    /\ link' = "up"
    /\ isMoreMessages' = TRUE
    /\ UNCHANGED <<extraVars, storeVars, producerVars, tokens, isStreaming, isPolling,
                   isStopped, hasCalledNoMoreMessages, pollingLoop, lastId, cPc, batch,
                   userVars>>

\* stop(), called by the owner between two handlers
ConsumerStop ==
    /\ cPc # "delivering"
    /\ pollingLoop' = FALSE
    /\ isStopped' = TRUE
    /\ StopBus
    /\ UNCHANGED <<extraVars, storeVars, producerVars, cStart, isStreaming, isPolling,
                   isMoreMessages, hasCalledNoMoreMessages, lastId, cPc, batch, userVars>>

\* the consumer's start() throws at its guard
ConsumerStartRefused ==
    /\ ConsumerStartError # NoError
    /\ cErr' = ConsumerStartError
    /\ UNCHANGED <<storeVars, producerVars, busVars, consumerVars, userVars, fetchErrors,
                   setterVars>>

\* streamMessagesFrom without its isStreaming guard
StreamError_IgnoresStreaming ==
    IF ~isStarting THEN "Cannot stream on a non started consumer" ELSE NoError

\* the error streamMessagesFrom throws before it does anything
StreamError ==
    IF ~isStarting THEN "Cannot stream on a non started consumer"
    ELSE IF isStreaming THEN "Already streaming"
    ELSE NoError

\* streamMessagesFrom throws at its guards
StreamRefused ==
    /\ StreamError # NoError
    /\ cErr' = StreamError
    /\ UNCHANGED <<storeVars, producerVars, busVars, consumerVars, userVars, fetchErrors,
                   setterVars>>

\* streamMessagesFrom(messageCallback, lastId, noMoreMessagesCallback, crashCallback)
StreamMessagesFrom(from) ==
    /\ StreamError = NoError
    /\ isStreaming' = TRUE
    /\ lastId' = from
    /\ fromId' = from
    /\ pollingLoop' = TRUE
    /\ UNCHANGED <<extraVars, storeVars, producerVars, busVars, cStart, isPolling, isMoreMessages,
                   isStopped, hasCalledNoMoreMessages, cPc, batch, delivered, pendingCb,
                   rejectedCb, drainedCalls, crashedCalls, crashedWith, crashCbThrew,
                   ticks>>

\* a tick that polls whether or not isMoreMessages is set
TickPolls_EveryTick == ~isStopped /\ ~isPolling

\* a tick that polls without looking at isPolling
TickPolls_WhilePolling == ~isStopped /\ isMoreMessages

\* TRUE when a tick goes on to poll
TickPolls == ~isStopped /\ isMoreMessages /\ ~isPolling

\* the tick never calls noMoreMessagesCallback
AnnouncesDrained_Never == FALSE

\* a tick that calls noMoreMessagesCallback without looking at isMoreMessages
AnnouncesDrained_Unasked == ~isStopped /\ ~hasCalledNoMoreMessages

\* TRUE when a tick calls noMoreMessagesCallback (an exception of the callback
\* is caught at 204-207 and changes nothing)
AnnouncesDrained == ~isStopped /\ ~isMoreMessages /\ ~hasCalledNoMoreMessages

\* one run of the setInterval handler, up to "await this.pollForNewMessages()"
IntervalHandler ==
    /\ pollingLoop
    /\ cPc # "delivering"
    /\ IF isStopped
       THEN /\ pollingLoop' = FALSE
            /\ UNCHANGED <<isPolling, hasCalledNoMoreMessages, cPc, drainedCalls>>
       ELSE IF ~TickPolls
       THEN IF AnnouncesDrained
            THEN /\ hasCalledNoMoreMessages' = TRUE
                 /\ drainedCalls' = drainedCalls + 1
                 /\ UNCHANGED <<pollingLoop, isPolling, cPc>>
            ELSE UNCHANGED <<pollingLoop, isPolling, hasCalledNoMoreMessages, cPc,
                             drainedCalls>>
       ELSE IF ConsumerClient
       THEN \* fetchNextMessagesFromMongo sent its find
            /\ isPolling' = TRUE
            /\ cPc' = "fetching"
            /\ UNCHANGED <<pollingLoop, hasCalledNoMoreMessages, drainedCalls>>
       ELSE \* getCollection throws "this.client is null": caught, isPolling = false
            UNCHANGED <<pollingLoop, isPolling, hasCalledNoMoreMessages, cPc,
                        drainedCalls>>
    /\ UNCHANGED <<extraVars, storeVars, producerVars, busVars, cStart, isStreaming, isMoreMessages,
                   isStopped, lastId, batch, fromId, delivered, pendingCb, rejectedCb,
                   crashedCalls, crashedWith, crashCbThrew>>

\* the interval fires
Tick == IntervalHandler /\ UNCHANGED ticks

\* the interval fires and the firing is counted
TickCounted == IntervalHandler /\ ticks' = Min(ticks + 1, MaxTicks)

\* mongo evaluates the find of the poll in flight
MongoFind ==
    /\ cPc = "fetching"
    /\ batch' = FetchNextMessagesFromMongo(FetchLimit, lastId)
    /\ cPc' = "fetched"
    /\ UNCHANGED <<extraVars, storeVars, producerVars, busVars, cStart, isStreaming, isPolling,
                   isMoreMessages, isStopped, hasCalledNoMoreMessages, pollingLoop,
                   lastId, userVars>>

\* a rejected find that is taken for an empty page
FetchFails_ClearsMore ==
    /\ cPc \in {"fetching", "fetched"}
    /\ cPc' = "idle"
    /\ batch' = <<>>
    /\ isPolling' = FALSE
    /\ isMoreMessages' = FALSE
    /\ UNCHANGED <<storeVars, producerVars, busVars, cStart, isStreaming,
                   isStopped, hasCalledNoMoreMessages, pollingLoop,
                   lastId, userVars>>

\* the find rejects: pollForNewMessages throws, the handler's catch clears isPolling
FetchFails ==
    /\ cPc \in {"fetching", "fetched"}
    /\ cPc' = "idle"
    /\ batch' = <<>>
    /\ isPolling' = FALSE
    /\ UNCHANGED <<storeVars, producerVars, busVars, cStart, isStreaming,
                   isMoreMessages, isStopped, hasCalledNoMoreMessages, pollingLoop,
                   lastId, userVars>>

\* the find of the poll in flight rejects
FetchFailed == FetchFails /\ UNCHANGED extraVars

\* the find of the poll in flight rejects and the rejection is counted
FetchFailedCounted ==
    /\ fetchErrors < MaxFetchErrors
    /\ FetchFails
    /\ fetchErrors' = fetchErrors + 1
    /\ UNCHANGED <<cErr, setterVars>>

\* the find resolves in pollForNewMessages: an empty page clears isMoreMessages
\* and ends the poll; any other page enters the for loop
FetchReturned ==
    /\ cPc = "fetched"
    /\ IF batch = <<>>
       THEN /\ isMoreMessages' = FALSE
            /\ isPolling' = FALSE
            /\ cPc' = "idle"
       ELSE /\ cPc' = "delivering"
            /\ UNCHANGED <<isMoreMessages, isPolling>>
    /\ UNCHANGED <<extraVars, storeVars, producerVars, busVars, cStart, isStreaming, isStopped,
                   hasCalledNoMoreMessages, pollingLoop, lastId, batch, userVars>>

\* the cursor moved only once the callback has returned
CursorFor_AfterCallback(msg, outcome) == IF outcome = "throw" THEN lastId ELSE msg._id

\* the cursor written by one pass of the loop for msg, whatever the callback does
CursorFor(msg, outcome) == msg._id

\* the catch block without its return
LoopContinues_NoReturn(outcome) == TRUE

\* TRUE when the loop goes on to the next message after this outcome
LoopContinues(outcome) == outcome # "throw"

\* One pass of the for loop of pollForNewMessages: lastId = msg._id, then
\* messageCallback(topicMsg), not awaited.  The callback returns ("ok"),
\* returns a promise that is still pending ("suspend"), calls stop() on the
\* consumer and returns ("stop"), or throws ("throw": crashCallback, whose own
\* exception is swallowed, then this.stop() and return).  After the last
\* message the poll ends and the interval handler clears isPolling.
Deliver(outcome, crashThrows) ==
    /\ cPc = "delivering"
    /\ batch # <<>>
    /\ LET msg == Head(batch)
           more == LoopContinues(outcome) /\ Tail(batch) # <<>>
       IN  /\ lastId' = CursorFor(msg, outcome)
           /\ delivered' = Append(delivered, TopicMsg(msg))
           /\ pendingCb' = IF outcome = "suspend" THEN pendingCb \cup {msg._id}
                           ELSE pendingCb
           /\ IF outcome = "throw"
              THEN /\ crashedCalls' = crashedCalls + 1
                   /\ crashedWith' = msg._id
                   /\ crashCbThrew' = crashThrows
              ELSE UNCHANGED <<crashedCalls, crashedWith, crashCbThrew>>
           /\ IF outcome \in {"throw", "stop"}
              THEN /\ pollingLoop' = FALSE
                   /\ isStopped' = TRUE
                   /\ StopBus
              ELSE UNCHANGED <<pollingLoop, isStopped, busVars>>
           /\ batch' = IF more THEN Tail(batch) ELSE <<>>
           /\ cPc' = IF more THEN "delivering" ELSE "idle"
           /\ isPolling' = more
    /\ UNCHANGED <<extraVars, storeVars, producerVars, cStart, isStreaming, isMoreMessages,
                   hasCalledNoMoreMessages, fromId, rejectedCb, drainedCalls, ticks>>

\* a pending messageCallback promise settles; nobody holds it, so a rejection
\* reaches no handler of the consumer
CallbackSettled(id, ok) ==
    /\ id \in pendingCb
    /\ cPc # "delivering"
    /\ pendingCb' = pendingCb \ {id}
    /\ rejectedCb' = IF ok THEN rejectedCb ELSE rejectedCb \cup {id}
    /\ UNCHANGED <<extraVars, storeVars, producerVars, busVars, consumerVars, fromId, delivered,
                   drainedCalls, crashedCalls, crashedWith, crashCbThrew, ticks>>

\* ------------------------------------------------------------ topic setter
\* The setter is constructed with a consumer and a producer.  Its start()
\* streams the topic from null into processMessage, its two set calls queue
\* synchronously, and triggerWaitingMessages (the 60 s interval, or the owner)
\* flushes the queues through producer.pushMessageToTopic, one awaited push at
\* a time.

\* hash(): object-hash with every Date replaced by its ISO string
hash(payload) == IF payload \in {"a", "a_iso"} THEN "h_a" ELSE "h_b"

\* the arguments the producer gets from "pushMessageToTopic(next)"
AppendCall(payload) ==
    [payload |-> payload, shardingKey |-> Undefined, logCompactId |-> Undefined]

\* the arguments the producer gets from
\* "pushMessageToTopic(next.payload, next.logCompactId)": its parameters are
\* (messagePayload, messageShardingKey, logCompactId?)
CompactCall(entry) ==
    [payload |-> entry.payload, shardingKey |-> entry.logCompactId,
     logCompactId |-> Undefined]

\* the topic: what it held, then one record per push, with the fields the
\* producer gives it (shardingKey, and logCompactId when that was passed)
Topic == history \o pushCalls

\* the position of the entry of id in the Record, 0 when it has none
IndexOf(entries, id) ==
    IF \E i \in 1..Len(entries) : entries[i].logCompactId = id
    THEN CHOOSE i \in 1..Len(entries) : entries[i].logCompactId = id
    ELSE 0

\* this.messagesToApply[logCompactId] = {...}: a new key goes last, an
\* existing key keeps its place and takes the new value
PutEntry(entries, e) ==
    LET i == IndexOf(entries, e.logCompactId)
    IN  IF i = 0 THEN Append(entries, e) ELSE [entries EXCEPT ![i] = e]

\* delete this.messagesToApply[logCompactId]
DeleteEntry(entries, id) ==
    LET keep == {i \in 1..Len(entries) : entries[i].logCompactId # id}
        nth(k) == CHOOSE i \in keep : Cardinality({j \in keep : j <= i}) = k
    IN  [k \in 1..Cardinality(keep) |-> entries[nth(k)]]

\* a sort that puts the newest first
RECURSIVE SortByQueuedAt_Descending(_)
SortByQueuedAt_Descending(entries) ==
    IF entries = <<>> THEN <<>>
    ELSE LET i == CHOOSE i \in 1..Len(entries) :
                    /\ \A j \in 1..Len(entries) : entries[j].queuedAt <= entries[i].queuedAt
                    /\ \A j \in 1..(i - 1) : entries[j].queuedAt < entries[i].queuedAt
         IN  <<entries[i]>> \o
             SortByQueuedAt_Descending(
                 SubSeq(entries, 1, i - 1) \o SubSeq(entries, i + 1, Len(entries)))

\* newMessages.sort((a, b) => a.queuedAt - b.queuedAt): ascending and stable
RECURSIVE SortByQueuedAt(_)
SortByQueuedAt(entries) ==
    IF entries = <<>> THEN <<>>
    ELSE LET i == CHOOSE i \in 1..Len(entries) :
                    /\ \A j \in 1..Len(entries) : entries[i].queuedAt <= entries[j].queuedAt
                    /\ \A j \in 1..(i - 1) : entries[i].queuedAt < entries[j].queuedAt
         IN  <<entries[i]>> \o
             SortByQueuedAt(
                 SubSeq(entries, 1, i - 1) \o SubSeq(entries, i + 1, Len(entries)))

\* produceWaitingMessages from the head of its first loop up to its next
\* await: the head of the append queue is shifted and pushed; when that queue
\* is empty the compacted entries are copied, sorted, and the first is pushed;
\* with nothing to push the function returns ("done")
FlushFrom(toPush, toApply) ==
    IF toPush # <<>>
    THEN [pc |-> "append",
          next |-> [logCompactId |-> Undefined, payload |-> Head(toPush),
                    queuedAt |-> -1],
          toPush |-> Tail(toPush), newMessages |-> <<>>]
    ELSE LET sorted == SortByQueuedAt(toApply)
         IN  IF sorted # <<>>
             THEN [pc |-> "compact", next |-> Head(sorted), toPush |-> toPush,
                   newMessages |-> Tail(sorted)]
             ELSE [pc |-> "done", next |-> NoEntry, toPush |-> toPush,
                   newMessages |-> <<>>]

\* triggerWaitingMessages with the lock free: take the lock and run
\* produceWaitingMessages to its first await; when it returns at once the
\* lock is released (lastTriggered is not after a thisTriggered of this moment)
BeginFlush(toPush, toApply) ==
    LET r == FlushFrom(toPush, toApply)
    IN  /\ thisTriggered' = now
        /\ messagesToPush' = r.toPush
        /\ next' = r.next
        /\ newMessages' = r.newMessages
        /\ sPc' = IF r.pc = "done" THEN "idle" ELSE r.pc
        /\ isProducingMessages' = (r.pc # "done")
        /\ triggeredWhileProducing' = FALSE

\* produceWaitingMessages returned: the lock is released, and the flush is
\* started again at once when a trigger came while it ran
CompleteFlush(toPush, toApply) ==
    IF lastTriggered > thisTriggered
    THEN BeginFlush(toPush, toApply)
    ELSE /\ isProducingMessages' = FALSE
         /\ sPc' = "idle"
         /\ next' = NoEntry
         /\ newMessages' = <<>>
         /\ messagesToPush' = toPush
         /\ UNCHANGED <<thisTriggered, triggeredWhileProducing>>

\* TRUE when the consumer's drained callback is the setter's ready callback.
\* The setter calls streamMessagesFrom(processMessage, null, {}, ready): the
\* abstract TopicConsumer declares (callback, lastId, queryDoc,
\* noMoreMessages); MongoRedisTopicConsumer declares (messageCallback, lastId,
\* noMoreMessagesCallback, crashCallback), so its drained callback is the {}
\* (calling it throws a TypeError that the tick catches)
ReadyOnDrained(backend) == backend = "contract"

\* start(): consumer.start(), producer.start(), streamMessagesFrom(..., null, ...)
\* on a topic that holds the records of held
SetterStart(backend, held) ==
    /\ sConsumer = "none"
    /\ sConsumer' = backend
    /\ history' = held
    /\ UNCHANGED <<coreVars, triggeredWhileProducing, sEchoed, sDrained, isReady, memoryHash,
                   messagesToApply, messagesToPush, isProducingMessages,
                   lastTriggered, thisTriggered, sPc, next, newMessages, now,
                   pushCalls, sErr, setCalls>>

\* a processMessage that keeps the first hash it saw for an id
ProcessMessage_FirstWins ==
    /\ sConsumer # "none"
    /\ sEchoed < Len(Topic)
    /\ LET msg == Topic[sEchoed + 1]
       IN  memoryHash' =
               IF msg.logCompactId # Undefined /\ memoryHash[msg.logCompactId] = Undefined
               THEN [memoryHash EXCEPT ![msg.logCompactId] = hash(msg.payload)]
               ELSE memoryHash
    /\ sEchoed' = sEchoed + 1
    /\ UNCHANGED <<coreVars, triggeredWhileProducing, history, sConsumer, sDrained, isReady,
                   messagesToApply, messagesToPush, isProducingMessages,
                   lastTriggered, thisTriggered, sPc, next, newMessages, now,
                   pushCalls, sErr, setCalls>>

\* the consumer hands the next topic message to processMessage
ProcessMessage ==
    /\ sConsumer # "none"
    /\ sEchoed < Len(Topic)
    /\ LET msg == Topic[sEchoed + 1]
       IN  memoryHash' =
               IF msg.logCompactId # Undefined
               THEN [memoryHash EXCEPT ![msg.logCompactId] = hash(msg.payload)]
               ELSE memoryHash
    /\ sEchoed' = sEchoed + 1
    /\ UNCHANGED <<coreVars, triggeredWhileProducing, history, sConsumer, sDrained, isReady,
                   messagesToApply, messagesToPush, isProducingMessages,
                   lastTriggered, thisTriggered, sPc, next, newMessages, now,
                   pushCalls, sErr, setCalls>>

\* the consumer has handed over every message and calls its drained callback
\* (once: hasCalledNoMoreMessages)
SetterDrained ==
    /\ sConsumer # "none"
    /\ ~sDrained
    /\ sEchoed = Len(Topic)
    /\ sDrained' = TRUE
    /\ isReady' = (isReady \/ ReadyOnDrained(sConsumer))
    /\ UNCHANGED <<coreVars, triggeredWhileProducing, history, sConsumer, sEchoed, memoryHash,
                   messagesToApply, messagesToPush, isProducingMessages,
                   lastTriggered, thisTriggered, sPc, next, newMessages, now,
                   pushCalls, sErr, setCalls>>

\* the guard of setLogCompactedPayload and of setPayload
SetError ==
    IF ~isReady
    THEN "Please await this.start properly, the topic setter isn't ready"
    ELSE NoError

\* a set call before the setter is ready throws
SetRefused ==
    /\ SetError # NoError
    /\ sErr' = SetError
    /\ UNCHANGED <<coreVars, triggeredWhileProducing, history, sConsumer, sEchoed, sDrained, isReady,
                   memoryHash, messagesToApply, messagesToPush,
                   isProducingMessages, lastTriggered, thisTriggered, sPc, next,
                   newMessages, now, pushCalls, setCalls>>

\* "Same data, ignore": the id is in memoryHash with the hash of this payload
SameData(id, payload) ==
    memoryHash[id] # Undefined /\ hash(payload) = memoryHash[id]

\* setLogCompactedPayload(logCompactId, payload)
SetLogCompactedPayload(id, payload) ==
    /\ SetError = NoError
    /\ Len(setCalls) < MaxSetCalls
    /\ messagesToApply' =
           IF SameData(id, payload) THEN messagesToApply
           ELSE PutEntry(messagesToApply,
                         [logCompactId |-> id, payload |-> payload, queuedAt |-> now])
    /\ setCalls' = Append(setCalls,
                          [logCompactId |-> id, payload |-> payload,
                           queued |-> ~SameData(id, payload)])
    /\ UNCHANGED <<coreVars, triggeredWhileProducing, history, sConsumer, sEchoed, sDrained, isReady,
                   memoryHash, messagesToPush, isProducingMessages, lastTriggered,
                   thisTriggered, sPc, next, newMessages, now, pushCalls, sErr>>

\* setPayload(payload)
SetPayload(payload) ==
    /\ SetError = NoError
    /\ Len(setCalls) < MaxSetCalls
    /\ messagesToPush' = Append(messagesToPush, payload)
    /\ setCalls' = Append(setCalls,
                          [logCompactId |-> Undefined, payload |-> payload,
                           queued |-> TRUE])
    /\ UNCHANGED <<coreVars, triggeredWhileProducing, history, sConsumer, sEchoed, sDrained, isReady,
                   memoryHash, messagesToApply, isProducingMessages, lastTriggered,
                   thisTriggered, sPc, next, newMessages, now, pushCalls, sErr>>

\* a millisecond passes
ClockTick ==
    /\ now < MaxClock
    /\ now' = now + 1
    /\ UNCHANGED <<coreVars, triggeredWhileProducing, history, sConsumer, sEchoed, sDrained, isReady,
                   memoryHash, messagesToApply, messagesToPush,
                   isProducingMessages, lastTriggered, thisTriggered, sPc, next,
                   newMessages, pushCalls, sErr, setCalls>>

\* triggerWaitingMessages(), by the interval or by the owner
TriggerWaitingMessages ==
    /\ IF isProducingMessages
       THEN /\ lastTriggered' = now
            /\ triggeredWhileProducing' = TRUE
            /\ UNCHANGED <<messagesToPush, isProducingMessages, thisTriggered,
                           sPc, next, newMessages>>
       ELSE /\ BeginFlush(messagesToPush, messagesToApply)
            /\ UNCHANGED lastTriggered
    /\ UNCHANGED <<coreVars, history, sConsumer, sEchoed, sDrained, isReady,
                   memoryHash, messagesToApply, now, pushCalls, sErr, setCalls>>

\* the push of an append-queue entry resolved: the while loop goes on
AppendPushed ==
    /\ sPc = "append"
    /\ pushCalls' = Append(pushCalls, AppendCall(next.payload))
    /\ LET r == FlushFrom(messagesToPush, messagesToApply)
       IN  IF r.pc = "done"
           THEN CompleteFlush(messagesToPush, messagesToApply)
           ELSE /\ messagesToPush' = r.toPush
                /\ next' = r.next
                /\ newMessages' = r.newMessages
                /\ sPc' = r.pc
                /\ UNCHANGED <<isProducingMessages, thisTriggered,
                               triggeredWhileProducing>>
    /\ UNCHANGED <<coreVars, history, sConsumer, sEchoed, sDrained, isReady,
                   memoryHash, messagesToApply, lastTriggered, now, sErr, setCalls>>

\* the push of a compacted entry resolved: the Record's entry of that id is
\* deleted and the loop goes on with the rest of the sorted copy
CompactPushed ==
    /\ sPc = "compact"
    /\ pushCalls' = Append(pushCalls, CompactCall(next))
    /\ messagesToApply' = DeleteEntry(messagesToApply, next.logCompactId)
    /\ IF newMessages # <<>>
       THEN /\ next' = Head(newMessages)
            /\ newMessages' = Tail(newMessages)
            /\ UNCHANGED <<messagesToPush, isProducingMessages, thisTriggered, sPc,
                           triggeredWhileProducing>>
       ELSE CompleteFlush(messagesToPush, messagesToApply')
    /\ UNCHANGED <<coreVars, history, sConsumer, sEchoed, sDrained, isReady,
                   memoryHash, lastTriggered, now, sErr, setCalls>>

\* a failed entry that is put back behind the entries queued since
Unshift_AtTail(queue, payload) == Append(queue, payload)

\* this.messagesToPush.unshift(next)
Unshift(queue, payload) == <<payload>> \o queue

\* a rejected push that releases the lock at once instead of leaving it to the timer
PushRejected_Unlocks ==
    /\ sPc \in {"append", "compact"}
    /\ messagesToPush' =
           IF sPc = "append" THEN Unshift(messagesToPush, next.payload)
           ELSE messagesToPush
    /\ sPc' = "idle"
    /\ isProducingMessages' = FALSE
    /\ next' = NoEntry
    /\ newMessages' = <<>>
    /\ UNCHANGED <<coreVars, triggeredWhileProducing, history, sConsumer, sEchoed, sDrained, isReady,
                   memoryHash, messagesToApply, lastTriggered,
                   thisTriggered, now, pushCalls, sErr, setCalls>>

\* the awaited push rejected: an append entry is unshifted, a compacted entry
\* is still in the Record; produceWaitingMessages throws and the lock stays
\* taken until the 20 s timer
PushRejected ==
    /\ sPc \in {"append", "compact"}
    /\ messagesToPush' =
           IF sPc = "append" THEN Unshift(messagesToPush, next.payload)
           ELSE messagesToPush
    /\ sPc' = "failed"
    /\ next' = NoEntry
    /\ newMessages' = <<>>
    /\ UNCHANGED <<coreVars, triggeredWhileProducing, history, sConsumer, sEchoed, sDrained, isReady,
                   memoryHash, messagesToApply, isProducingMessages, lastTriggered,
                   thisTriggered, now, pushCalls, sErr, setCalls>>

\* the 20 s timer of the catch: isProducingMessages = false
UnlockAfterFailure ==
    /\ sPc = "failed"
    /\ sPc' = "idle"
    /\ isProducingMessages' = FALSE
    /\ UNCHANGED <<coreVars, triggeredWhileProducing, history, sConsumer, sEchoed, sDrained, isReady,
                   memoryHash, messagesToApply, messagesToPush, lastTriggered,
                   thisTriggered, next, newMessages, now, pushCalls, sErr, setCalls>>

\* -------------------------------------------------------------------- Next
Next ==
    \/ \E p \in Producers : ProducerStart(p)
    \/ \E p \in Producers : ProducerStarted(p)
    \/ \E p \in Producers, key \in ShardingKeys : PushMessageToTopic(p, key)
    \/ \E p \in Producers : GetNextIdFailed(p)
    \/ \E p \in Producers : InsertOne(p)
    \/ \E p \in Producers : InsertOneFailed(p)
    \/ \E p \in Producers : PublishDone(p)
    \/ BusDisconnected
    \/ BusReconnected
    \/ Resubscribed
    \/ WakeSignal
    \/ ConsumerStart
    \/ ConsumerMongoReady
    \/ ConsumerRedisReady
    \/ ConsumerStop
    \/ \E from \in FromIds : StreamMessagesFrom(from)
    \/ Tick
    \/ MongoFind
    \/ FetchFailed
    \/ FetchReturned
    \/ \E outcome \in Outcomes, crashThrows \in BOOLEAN : Deliver(outcome, crashThrows)

Spec == Init /\ [][Next]_vars

\* One producer and a consumer whose messageCallback may be an async function:
\* the promise it returns is dropped by the loop and settles after the poll.
OneProducer == {"p1"}

NextAsync ==
    \/ \E p \in OneProducer : ProducerStart(p)
    \/ \E p \in OneProducer : ProducerStarted(p)
    \/ \E p \in OneProducer, key \in ShardingKeys : PushMessageToTopic(p, key)
    \/ \E p \in OneProducer : InsertOne(p)
    \/ \E p \in OneProducer : PublishDone(p)
    \/ WakeSignal
    \/ ConsumerStart
    \/ ConsumerMongoReady
    \/ ConsumerRedisReady
    \/ \E from \in FromIds : StreamMessagesFrom(from)
    \/ Tick
    \/ MongoFind
    \/ FetchReturned
    \/ \E outcome \in Outcomes \cup AsyncOutcomes, crashThrows \in BOOLEAN :
          Deliver(outcome, crashThrows)
    \/ \E id \in 1..MaxPushes, ok \in BOOLEAN : CallbackSettled(id, ok)

SpecAsync == Init /\ [][NextAsync]_vars

\* The round trip of tests/testConsumer.ts: one producer, a consumer that
\* awaits start() before it calls streamMessagesFrom(null), callbacks that
\* return, and neither store nor bus failing.
NextRoundTrip ==
    \/ \E p \in OneProducer : ProducerStart(p)
    \/ \E p \in OneProducer : ProducerStarted(p)
    \/ \E p \in OneProducer, key \in ShardingKeys : PushMessageToTopic(p, key)
    \/ \E p \in OneProducer : InsertOne(p)
    \/ \E p \in OneProducer : PublishDone(p)
    \/ WakeSignal
    \/ ConsumerStart
    \/ ConsumerMongoReady
    \/ ConsumerRedisReady
    \/ (cStart = "done" /\ StreamMessagesFrom(NullId))
    \/ Tick
    \/ MongoFind
    \/ FetchReturned
    \/ Deliver("ok", FALSE)

SpecRoundTrip == Init /\ [][NextRoundTrip]_vars

\* The round trip with wake signals that no push stands behind, sent at any
\* point.
NextWake ==
    \/ NextRoundTrip
    \/ ExtraWake

SpecWake == Init /\ [][NextWake]_vars

\* A bus outage during streaming: one producer, a consumer that awaited
\* start() and streams from null, a redis connection that drops and comes
\* back, and pushes that are made only while it is down.
NextOutage ==
    \/ \E p \in OneProducer : ProducerStart(p)
    \/ \E p \in OneProducer : ProducerStarted(p)
    \/ (link = "down" /\ \E p \in OneProducer, key \in ShardingKeys :
                            PushMessageToTopic(p, key))
    \/ (link = "down" /\ \E p \in OneProducer : InsertOne(p))
    \/ \E p \in OneProducer : PublishDone(p)
    \/ BusDisconnected
    \/ BusReconnected
    \/ Resubscribed
    \/ WakeSignal
    \/ ConsumerStart
    \/ ConsumerMongoReady
    \/ ConsumerRedisReady
    \/ (cStart = "done" /\ StreamMessagesFrom(NullId))
    \/ Tick
    \/ MongoFind
    \/ FetchReturned
    \/ Deliver("ok", FALSE)

SpecOutage == Init /\ [][NextOutage]_vars

\* Polling with a store that may fail: the round trip with finds that reject,
\* callbacks that throw or stop the consumer, a consumer that is stopped from
\* outside, and a redis connection that may drop and come back.
NextPolling ==
    \/ NextRoundTrip
    \/ FetchFailedCounted
    \/ \E outcome \in Outcomes, crashThrows \in BOOLEAN : Deliver(outcome, crashThrows)
    \/ ConsumerStop
    \/ BusDisconnected
    \/ BusReconnected
    \/ Resubscribed
SpecPolling == Init /\ [][NextPolling]_vars

\* A backlog: one producer fills the topic and is done before the consumer,
\* having awaited start(), streams from null or from an id; no wake signal is
\* delivered, and the interval, the store and the loop keep running.
NextBacklog ==
    \/ \E p \in OneProducer : ProducerStart(p)
    \/ \E p \in OneProducer : ProducerStarted(p)
    \/ (~isStreaming /\ \E p \in OneProducer, key \in ShardingKeys : PushMessageToTopic(p, key))
    \/ \E p \in OneProducer : InsertOne(p)
    \/ \E p \in OneProducer : PublishDone(p)
    \/ ConsumerStart
    \/ ConsumerMongoReady
    \/ ConsumerRedisReady
    \/ (/\ cStart = "done"
        /\ \A p \in OneProducer : pPc[p] = "idle"
        /\ \E from \in FromIds : StreamMessagesFrom(from))
    \/ Tick
    \/ MongoFind
    \/ FetchReturned
    \/ Deliver("ok", FALSE)
SpecBacklog ==
    /\ Init /\ [][NextBacklog]_vars
    /\ WF_vars(Tick) /\ WF_vars(MongoFind) /\ WF_vars(FetchReturned)
    /\ WF_vars(Deliver("ok", FALSE))

\* Polling over a bus whose re-subscription after an outage may be rejected.
NextResubscribe ==
    \/ NextPolling
    \/ \E stillConnected \in BOOLEAN : ResubscribeFailed(stillConnected)
SpecResubscribe == Init /\ [][NextResubscribe]_vars

\* An empty topic: producers that start and never push, a consumer that
\* awaited start() and streams from null, a redis connection that may drop and
\* come back, and an interval whose firings are counted.
NextEmpty ==
    \/ \E p \in Producers : ProducerStart(p)
    \/ \E p \in Producers : ProducerStarted(p)
    \/ BusDisconnected
    \/ BusReconnected
    \/ Resubscribed
    \/ ConsumerStart
    \/ ConsumerMongoReady
    \/ ConsumerRedisReady
    \/ (cStart = "done" /\ StreamMessagesFrom(NullId))
    \/ TickCounted
    \/ MongoFind
    \/ FetchFailed
    \/ FetchReturned

SpecEmpty == Init /\ [][NextEmpty]_vars

\* The producers' life: start, pushes, failing inserts and publishes, retries,
\* stop, and calls that are refused; the consumer only subscribes and receives
\* the wake signals.
OneKey == {"ka"}

NextProducers ==
    \/ \E p \in Producers : ProducerStart(p)
    \/ \E p \in Producers : ProducerStartRefused(p)
    \/ \E p \in Producers : ProducerStarted(p)
    \/ \E p \in Producers : ProducerStop(p)
    \/ \E p \in Producers : ProducerStopRefused(p)
    \/ \E p \in Producers, key \in OneKey : PushMessageToTopic(p, key)
    \/ \E p \in Producers : PushRefused(p)
    \/ \E p \in Producers : GetNextIdFailed(p)
    \/ \E p \in Producers : InsertOne(p)
    \/ \E p \in Producers : InsertOneFailed(p)
    \/ \E p \in Producers : PublishDone(p)
    \/ \E p \in Producers : PublishFailed(p)
    \/ \E p \in Producers : PublishRetry(p)
    \/ ConsumerStart
    \/ ConsumerMongoReady
    \/ ConsumerRedisReady
    \/ WakeSignal

SpecProducers == Init /\ [][NextProducers]_vars

\* The consumer's public calls in any order (start, streamMessagesFrom, stop,
\* each accepted or refused) over one producer that pushes.
NextLifecycle ==
    \/ \E p \in OneProducer : ProducerStart(p)
    \/ \E p \in OneProducer : ProducerStarted(p)
    \/ \E p \in OneProducer, key \in OneKey : PushMessageToTopic(p, key)
    \/ \E p \in OneProducer : InsertOne(p)
    \/ \E p \in OneProducer : PublishDone(p)
    \/ ConsumerStart \/ ConsumerStartRefused
    \/ ConsumerMongoReady \/ ConsumerRedisReady
    \/ ConsumerStop
    \/ \E from \in FromIds : StreamMessagesFrom(from)
    \/ StreamRefused
    \/ WakeSignal
    \/ Tick \/ MongoFind \/ FetchReturned
    \/ Deliver("ok", FALSE)

SpecLifecycle == Init /\ [][NextLifecycle]_vars

\* The topic setter over its consumer and its producer.
NextSetter ==
    \/ \E backend \in Backends, held \in Histories : SetterStart(backend, held)
    \/ ProcessMessage
    \/ SetterDrained
    \/ SetRefused
    \/ \E id \in CompactIds, payload \in Payloads : SetLogCompactedPayload(id, payload)
    \/ \E payload \in AppendPayloads : SetPayload(payload)
    \/ ClockTick
    \/ TriggerWaitingMessages
    \/ AppendPushed
    \/ CompactPushed
    \/ PushRejected
    \/ UnlockAfterFailure

SpecSetter == Init /\ [][NextSetter]_vars

\* the setter replaying a topic that other writers filled, then following
\* the appends it makes itself
NextReplay ==
    \/ \E backend \in Backends, held \in ReplayHistories : SetterStart(backend, held)
    \/ ProcessMessage
    \/ SetterDrained
    \/ \E payload \in AppendPayloads : SetPayload(payload)
    \/ TriggerWaitingMessages
    \/ AppendPushed
SpecReplay == Init /\ [][NextReplay]_vars

\* the setter with its 20 s unlock timer firing once armed (setTimeout, 96-101)
SpecSetterFair == SpecSetter /\ WF_vars(UnlockAfterFailure)

\* One producer and its wake signals: the retry timer fires when it is armed,
\* and the bus accepts a publish that is offered to it again and again.
NextPublish ==
    \/ \E p \in OneProducer : ProducerStart(p)
    \/ \E p \in OneProducer : ProducerStarted(p)
    \/ \E p \in OneProducer : ProducerStop(p)
    \/ \E p \in OneProducer, key \in OneKey : PushMessageToTopic(p, key)
    \/ \E p \in OneProducer : InsertOne(p)
    \/ \E p \in OneProducer : InsertOneFailed(p)
    \/ \E p \in OneProducer : PublishDone(p)
    \/ \E p \in OneProducer : PublishFailed(p)
    \/ \E p \in OneProducer : PublishRetry(p)
    \/ ConsumerStart \/ ConsumerMongoReady \/ ConsumerRedisReady

SpecPublish ==
    /\ Init
    /\ [][NextPublish]_vars
    /\ \A p \in OneProducer : WF_vars(PublishRetry(p)) /\ SF_vars(PublishDone(p))

\* ------------------------------------------------------------------ claims
DeliveredIds == {delivered[i].id : i \in 1..Len(delivered)}
\* the documents in the collection that the cursor has passed
Passed == {d \in col : lastId # NullId /\ d._id <= lastId}
\* the documents in the collection that the cursor has not reached
Waiting == {d \in col : lastId = NullId \/ d._id > lastId}
Crashed == crashedWith # NullId

\* C1: with two producers pushing concurrently and a consumer streaming from
\* null, no pushed message is skipped: every document the cursor has passed
\* was handed to messageCallback.
C1_NoIdSkipped ==
    (isStreaming /\ fromId = NullId) => \A d \in Passed : d._id \in DeliveredIds

\* C2: the ids handed to messageCallback in one streaming session are
\* strictly increasing.
C2_StrictlyIncreasing ==
    \A i, j \in 1..Len(delivered) : i < j => delivered[i].id < delivered[j].id

C2_Witness ==
    /\ Len(delivered) = 3
    /\ \E i, j \in 1..3 : delivered[i].payload[1] # delivered[j].payload[1]

\* C3: when a fetch of a consumer streaming from null returns the message
\* with id N, every document with id <= N that is in the collection at that
\* fetch has been delivered already or comes with it.
C3_AllBelowDelivered ==
    [][(cPc = "fetching" /\ cPc' = "fetched" /\ fromId = NullId)
        => \A d \in col :
             (\E k \in 1..Len(batch') : d._id <= batch'[k]._id)
                => (d._id \in DeliveredIds \/ \E k \in 1..Len(batch') : batch'[k] = d)]_vars

\* C5: once stop() has been called, messageCallback, noMoreMessagesCallback
\* and crashCallback are not invoked again.
C5_NoCallbackAfterStop ==
    [][isStopped => /\ delivered' = delivered
                    /\ drainedCalls' = drainedCalls
                    /\ crashedCalls' = crashedCalls]_vars

\* C6: a throw of messageCallback invokes crashCallback exactly once (its own
\* exception is swallowed), leaves the consumer stopped with its interval
\* cleared, and no messageCallback or noMoreMessagesCallback follows.
C6_CrashTerminates ==
    /\ [](crashedCalls = IF Crashed THEN 1 ELSE 0)
    /\ [](Crashed => isStopped /\ ~pollingLoop /\ cPc = "idle" /\ ~isPolling)
    /\ [][Crashed => /\ delivered' = delivered
                     /\ drainedCalls' = drainedCalls
                     /\ crashedCalls' = crashedCalls
                     /\ isStopped' /\ ~pollingLoop']_vars

C6_Witness ==
    /\ Crashed
    /\ crashCbThrew
    /\ isStopped
    /\ Waiting # {}

\* C7: the cursor is on a message when messageCallback is invoked for it; when
\* the callback throws, the cursor stays on the failing message and nothing
\* after it is delivered.
C7_CursorBeforeDelivery ==
    /\ [](delivered # <<>> => lastId = delivered[Len(delivered)].id)
    /\ [](Crashed => lastId = crashedWith /\ batch = <<>>)
    /\ [][Crashed => delivered' = delivered /\ lastId' = lastId]_vars

C7_Witness ==
    /\ Crashed
    /\ Len(delivered) >= 2
    /\ \E d \in col : d._id > crashedWith

\* no wake is on its way to the consumer
NoWakeComing == tokens = 0 /\ \A p \in Producers : pPublishing[p] = 0
\* every push call has returned
PushesReturned == \A p \in Producers : pPc[p] = "idle"
\* the payloads handed to messageCallback, in call order
DeliveredPayloads == [i \in 1..Len(delivered) |-> delivered[i].payload]
\* the payloads of the inserted documents, in id order
CommittedPayloads ==
    LET docs == SortById(col) IN [i \in 1..Len(docs) |-> docs[i].payload]

C8_AwaitsCallback ==
    /\ [][delivered' # delivered => pendingCb = {}]_vars
    /\ [](rejectedCb # {} => Crashed)

\* C9: two delivered messages of one producer with the same shardingKey are
\* delivered in the order of their push calls, whatever other producers push
\* in between.
C9_ShardOrder ==
    \A i, j \in 1..Len(delivered) :
        (/\ i < j
         /\ delivered[i].payload[1] = delivered[j].payload[1]
         /\ delivered[i].shardingKey = delivered[j].shardingKey)
            => delivered[i].payload[2] < delivered[j].payload[2]

C9_Witness ==
    /\ Len(delivered) = 3
    /\ delivered[1].payload[1] = delivered[3].payload[1]
    /\ delivered[1].shardingKey = delivered[3].shardingKey
    /\ delivered[2].payload[1] # delivered[1].payload[1]

\* C10: one producer pushes, a consumer streams from null over a bus that is
\* up; once the pushes have returned, no wake is on its way and the consumer
\* has drained, the delivered payloads are the pushed payloads in push order.
C10_RoundTrip ==
    (/\ pPushes["p2"] = 0
     /\ PushesReturned
     /\ NoWakeComing
     /\ isStreaming /\ fromId = NullId /\ ~isStopped
     /\ cStart = "done" /\ link = "up"
     /\ cPc = "idle" /\ ~isMoreMessages)
        => DeliveredPayloads = CommittedPayloads

\* the run of a started, streaming consumer has come to rest: the pushes have
\* returned, no wake is on its way, no poll is in flight and the consumer has
\* drained.  Without another wake nothing more is delivered from here (C4).
AtRest ==
    /\ PushesReturned
    /\ NoWakeComing
    /\ isStreaming /\ ~isStopped
    /\ cStart = "done" /\ link = "up"
    /\ cPc = "idle" /\ ~isPolling /\ ~isMoreMessages

\* C11: an additional wake token does not change the set of delivered
\* messages.  A token added to a run that has come to rest makes the next tick
\* fetch whatever waits beyond the cursor, so it must find nothing waiting.
C11_ExtraWakeFindsNothing ==
    [][(ExtraWake /\ AtRest) => Waiting = {}]_vars

\* C12: the messages appended while the consumer's bus connection was down are
\* delivered after the reconnection without a wake token: once the connection
\* is back and the consumer has come to rest, every one of them was handed to
\* messageCallback.
C12_OutageRecovered ==
    AtRest => \A d \in col : d._id \in DeliveredIds

\* C13 (as claimed): on an empty topic noMoreMessagesCallback has been invoked
\* by the second tick after streamMessagesFrom, and nothing is delivered.
C13_DrainedWithinTwoTicks ==
    /\ (isStreaming /\ ticks >= 2) => drainedCalls >= 1
    /\ delivered = <<>>

\* C13 (amended): on an empty topic nothing is delivered, and
\* noMoreMessagesCallback is invoked once, by the first tick that finds
\* isMoreMessages false, that is after a poll has returned empty and no bus
\* (re)subscription has set the flag again: the second tick when the first
\* poll has returned by then.
C13_DrainedAfterEmptyPoll ==
    /\ [](delivered = <<>> /\ drainedCalls <= 1)
    /\ [](drainedCalls = 1 => ticks >= 2)
    /\ [][(TickCounted /\ ~isMoreMessages /\ drainedCalls = 0)
            => drainedCalls' = 1]_vars
    /\ [][drainedCalls' # drainedCalls
            => (~isMoreMessages /\ ~isPolling /\ cPc = "idle")]_vars
    /\ [][(TickCounted /\ ticks = 1 /\ ~isPolling /\ ~isMoreMessages)
            => (ticks' = 2 /\ drainedCalls' = 1)]_vars

C13_Witness ==
    /\ isStreaming /\ fromId = NullId
    /\ col = {} /\ delivered = <<>>
    /\ ticks = 2
    /\ drainedCalls = 1

\* C14: whenever isMoreMessages is set to true (wake signal or bus
\* (re)subscription) the hasCalledNoMoreMessages latch is cleared, so that
\* noMoreMessagesCallback fires again once the consumer has caught up.
C14_DrainedRearmed ==
    [][(~isMoreMessages /\ isMoreMessages') => ~hasCalledNoMoreMessages']_vars

\* the documents of the pushes in flight
InFlightDocs == {pDoc[p] : p \in Producers} \ {NoDoc}
\* every document that holds an id the counter gave out and that still exists
AllocatedDocs == col \cup InFlightDocs

\* C15: the ids given out for a topic are unique and follow the order of the
\* counter's increments: the first is 1, each allocation returns the counter's
\* value plus one, above every id given out before, and two pushes of one
\* producer get ids in the order of the calls.
C15_IdsUniqueOrdered ==
    /\ [](\A d \in AllocatedDocs : d._id \in 1..seq)
    /\ [](\A d, e \in AllocatedDocs : d._id = e._id => d = e)
    /\ [](\A d, e \in AllocatedDocs :
            (d.payload[1] = e.payload[1] /\ d.payload[2] < e.payload[2])
                => d._id < e._id)
    /\ [][\A p \in Producers :
            pPushes'[p] # pPushes[p]
                => (seq' = seq + 1 /\ pDoc'[p]._id = seq + 1)]_vars
    /\ [][seq' >= seq]_vars

C15_Witness ==
    /\ Cardinality(col) = 3
    /\ \E d, e \in col : d.payload[1] # e.payload[1]
    /\ \E d \in col : d._id = 1

\* C16: a push whose insert is not acknowledged fails without publishing a
\* wake token, and its id is burned: the counter keeps the increment, it never
\* goes down, and every later push of any producer gets an id above it.
C16_FailedInsertBurnsId ==
    /\ [][\A p \in Producers :
            (pPc[p] = "insertOne" /\ pPc'[p] = "idle" /\ pDoc[p] \notin col')
                => /\ pDoc[p]._id <= seq'
                   /\ col' = col /\ seq' = seq
                   /\ pPublishing' = pPublishing /\ pRetry' = pRetry
                   /\ tokens' = tokens]_vars
    /\ [][\A p \in Producers :
            pPushes'[p] # pPushes[p] => pDoc'[p]._id > seq]_vars
    /\ [][seq' >= seq]_vars

\* id 1 was burned by a failed insert and a later push committed id 2
C16_Witness ==
    /\ seq >= 2
    /\ \A d \in AllocatedDocs : d._id # 1
    /\ \E d \in col : d._id = 2

\* C17: a push whose insert is acknowledged has returned to its caller without
\* an error at that very step, whatever becomes of the publish; a publish that
\* fails later only arms the retry timer and touches neither the push, its
\* caller, the collection nor the counter.
C17_PushReturnsAtAck ==
    /\ [][\A p \in Producers :
            (pPc[p] = "insertOne" /\ pDoc[p] \in col')
                => (pPc'[p] = "idle" /\ pErr'[p] = pErr[p])]_vars
    /\ [][\A p \in Producers :
            pRetry'[p] > pRetry[p]
                => /\ pPc' = pPc /\ pErr' = pErr /\ pDoc' = pDoc
                   /\ pPushes' = pPushes /\ col' = col /\ seq' = seq]_vars

\* the publish of a committed push has failed and the push had returned
C17_Witness ==
    \E p \in Producers :
        /\ pRetry[p] > 0
        /\ pPc[p] = "idle"
        /\ pErr[p] = NoError
        /\ \E d \in col : d.payload[1] = p

\* the wake signals of producer p that are not published yet: publishes in
\* flight and armed retry timers
PendingSignals(p) == pPublishing[p] + pRetry[p]

\* C18: a publish that fails arms a retry; a retry that fires while the
\* producer is not stopped publishes again; a signal of a live producer goes
\* away only by a publish that succeeds; so with a bus that ends up accepting
\* publishes every signal of a producer that stays alive is published, and a
\* stopped producer starts no publish.
C18_RetriesUntilPublished ==
    /\ [][\A p \in Producers :
            PublishFailed(p) => pRetry'[p] = pRetry[p] + 1]_vars
    /\ [][\A p \in Producers :
            (PublishRetry(p) /\ ~pStopped[p])
                => pPublishing'[p] = pPublishing[p] + 1]_vars
    /\ [][\A p \in Producers :
            (~pStopped'[p] /\ PendingSignals(p)' < PendingSignals(p))
                => PublishDone(p)]_vars
    /\ [][\A p \in Producers :
            pStopped[p] => pPublishing'[p] <= pPublishing[p]]_vars
    /\ \A p \in OneProducer : []<>(pStopped[p] \/ PendingSignals(p) = 0)

\* two pushes committed: the signal of one reached the subscriber, the signal
\* of the other waits for the retry timer of the live producer
C18_Witness ==
    \E p \in OneProducer :
        /\ ~pStopped[p]
        /\ pRetry[p] > 0
        /\ Cardinality(col) >= 2
        /\ tokens > 0

\* the fields and the sessions of producer p, and what its calls have done to
\* the store and the bus
ProducerState(p) ==
    <<pStart[p], pStopped[p], pPc[p], pDoc[p], pPushes[p], pPublishing[p],
      pRetry[p], seq, col, tokens>>

\* C19: the body of start() runs only for a producer that was never started
\* and is not stopped; a call in any other state throws "Already started" (a
\* start in flight or completed) or "Already stopped" (after stop), acquires no
\* session and leaves the producer as it was.
C19_StartGuards ==
    /\ [][\A p \in Producers :
            (pStart'[p] = "starting" /\ pStart[p] # "starting")
                => (pStart[p] = "new" /\ ~pStopped[p])]_vars
    /\ [][\A p \in Producers :
            (pStart'[p] = "ready" /\ pStart[p] # "ready")
                => pStart[p] = "starting"]_vars
    /\ [][\A p \in Producers :
            ProducerStartRefused(p)
                => /\ pStopped[p] \/ pStart[p] \in {"starting", "ready"}
                   /\ pErr'[p] = (IF pStopped[p] THEN "Already stopped"
                                  ELSE "Already started")
                   /\ ProducerState(p)' = ProducerState(p)]_vars

\* one producer refused a second start while its first was in flight, the
\* other refused a start after stop and holds no session
C19_Witness ==
    /\ pStart["p1"] = "starting" /\ ~pStopped["p1"]
    /\ pErr["p1"] = "Already started"
    /\ pStart["p2"] = "new" /\ pStopped["p2"]
    /\ pErr["p2"] = "Already stopped"

\* C20: once a producer is stopped it stays stopped and each of start,
\* pushMessageToTopic and stop throws "Already stopped"; no call made after
\* the stop begins a start, allocates an id or starts a publish, and a refused
\* call leaves the counter, the collection and the bus as they were.
C20_StoppedRefusesAll ==
    /\ [](\A p \in Producers :
            pStopped[p] => /\ StartError(p) = "Already stopped"
                           /\ PushError(p) = "Already stopped"
                           /\ StopError(p) = "Already stopped")
    /\ [][\A p \in Producers :
            pStopped[p]
                => /\ pStopped'[p]
                   /\ pPushes'[p] = pPushes[p]
                   /\ pStart'[p] = "starting" => pStart[p] = "starting"
                   /\ pPublishing'[p] <= pPublishing[p]
                   /\ pErr'[p] # pErr[p] => pErr'[p] = "Already stopped"]_vars
    /\ [][\A p \in Producers :
            PushRefused(p) => ProducerState(p)' = ProducerState(p)]_vars

\* a producer that pushed was stopped and then refused a call; the other
\* producer still pushes
C20_Witness ==
    \E p, q \in Producers :
        /\ pStopped[p] /\ pStart[p] = "ready" /\ pPushes[p] > 0
        /\ pErr[p] = "Already stopped"
        /\ ~pStopped[q] /\ pPushes[q] > 0

\* C21: a consumer that is streaming refuses streamMessagesFrom with "Already
\* streaming" and a consumer whose start() was called refuses start() with
\* "Already started"; a refused call changes nothing but the error its caller
\* gets, so the session keeps its first cursor argument, its callbacks and its
\* one interval, the cursor moves only by a delivery, and the body of start()
\* runs once.
C21_SecondCallRefused ==
    /\ [](isStreaming => StreamError = "Already streaming")
    /\ [](isStarting => ConsumerStartError = "Already started")
    /\ [][cErr' # cErr
            => UNCHANGED <<storeVars, producerVars, busVars, consumerVars, userVars>>]_vars
    /\ [][isStreaming
            => /\ isStreaming'
               /\ fromId' = fromId
               /\ pollingLoop' => pollingLoop
               /\ lastId' # lastId => Len(delivered') = Len(delivered) + 1]_vars
    /\ [][cStart' = "mongo" => cStart \in {"new", "mongo"}]_vars

\* a session from null that has delivered refused a second streamMessagesFrom
C21_Witness ==
    /\ isStreaming /\ fromId = NullId
    /\ cErr = "Already streaming"
    /\ delivered # <<>> /\ lastId = delivered[Len(delivered)].id
    /\ pollingLoop

\* C22: stop latches: once isStopped is set no later call begins a start (the
\* consumer opens no session) and none installs an interval or begins a
\* streaming session.
C22_StoppedRefusesCalls ==
    [][isStopped
        => /\ isStopped'
           /\ ~(cStart = "new" /\ cStart' # "new")
           /\ ~(~pollingLoop /\ pollingLoop')
           /\ ~(~isStreaming /\ isStreaming')]_vars

\* C29: a wake that arrives while a fetch is in flight is kept when the fetch
\* returns empty.  With the bus up for the whole session, a step that clears
\* isMoreMessages while a committed message is beyond the cursor and no wake
\* for it is still on its way has thrown away the wake that announced it.
C29_WakeDuringFetchKept ==
    [][(isMoreMessages /\ ~isMoreMessages')
        => (Waiting' = {} \/ ~NoWakeComing')]_vars

\* the pushes the setter made for compaction id, in order: the id is the
\* second argument of the call
PushedFor(id) == SelectSeq(pushCalls, LAMBDA c : c.shardingKey = id)
\* the pushes the setter made from its append queue, in order
PushedAppends == SelectSeq(pushCalls, LAMBDA c : c.shardingKey = Undefined)

\* C23: for every compaction id, no compacted message the setter pushes has
\* the payload hash of the message it pushed before for that id.
C23_NoRepeatedHash ==
    \A id \in CompactIds :
        LET e == PushedFor(id)
        IN  \A i \in 1..(Len(e) - 1) : hash(e[i].payload) # hash(e[i + 1].payload)

\* the last accepted set call, when a step has just added one
LastSetCall == setCalls[Len(setCalls)]
\* the Record's entry of id
EntryOf(entries, id) == entries[IndexOf(entries, id)]

\* C24: with no other writer on the topic, once a flush has pushed payload p
\* for an id and nothing is pending for that id, a setLogCompactedPayload for
\* the id with a payload of the same hash is dropped, so that the id gets one
\* push.
C24_SecondCallDropped ==
    [][\A id \in CompactIds :
        (/\ history = <<>>
         /\ Len(setCalls') = Len(setCalls) + 1
         /\ LastSetCall'.logCompactId = id
         /\ IndexOf(messagesToApply, id) = 0
         /\ ~(sPc = "compact" /\ next.logCompactId = id)
         /\ PushedFor(id) # <<>>
         /\ hash(LastSetCall'.payload)
                = hash(PushedFor(id)[Len(PushedFor(id))].payload))
            => ~LastSetCall'.queued]_vars

\* C25: the latest of two setLogCompactedPayload calls for one id wins: a
\* flush that begins after exactly two calls, both for the same id, and before
\* anything was pushed, pushes one entry, for that id, with the payload of the
\* second call.
C25_LatestWins ==
    [][(/\ ~isProducingMessages /\ isProducingMessages'
        /\ pushCalls = <<>>
        /\ Len(setCalls) = 2
        /\ setCalls[1].logCompactId # Undefined
        /\ setCalls[1].logCompactId = setCalls[2].logCompactId)
            => /\ sPc' = "compact"
               /\ next'.logCompactId = setCalls[2].logCompactId
               /\ next'.payload = setCalls[2].payload
               /\ newMessages' = <<>>]_vars

\* C26: the setter is ready exactly when its consumer has called its drained
\* callback; until then the set calls are refused and change nothing.
C26_ReadyWhenDrained ==
    /\ [](isReady <=> sDrained)
    /\ [](~isReady => (messagesToApply = <<>> /\ messagesToPush = <<>> /\ setCalls = <<>>))
    /\ [][sErr' # sErr => (~isReady /\ UNCHANGED <<memoryHash, messagesToApply,
                                                    messagesToPush, setCalls>>)]_vars

\* the payloads setPayload accepted, in call order
AcceptedAppends ==
    LET calls == SelectSeq(setCalls, LAMBDA c : c.logCompactId = Undefined)
    IN  [i \in 1..Len(calls) |-> calls[i].payload]
\* the append payloads that wait: the one whose push is awaited, then the queue
PendingAppends ==
    (IF sPc = "append" THEN <<next.payload>> ELSE <<>>) \o messagesToPush

C28_FlushOrder ==
    /\ [][(sPc = "append" /\ sPc' = "compact") => messagesToPush' = <<>>]_vars
    /\ [][(sPc = "compact" /\ sPc' = "append") => thisTriggered' # thisTriggered]_vars
    /\ [](sPc = "compact" =>
            /\ \A i \in 1..Len(newMessages) : next.queuedAt <= newMessages[i].queuedAt
            /\ \A i, j \in 1..Len(newMessages) :
                   i < j => newMessages[i].queuedAt <= newMessages[j].queuedAt)
    /\ [][(sPc = "compact" /\ sPc' = "compact" /\ thisTriggered' = thisTriggered
            /\ Len(pushCalls') > Len(pushCalls))
            => next.queuedAt <= next'.queuedAt]_vars
    /\ [][(/\ Len(setCalls') = Len(setCalls) + 1
            /\ LastSetCall'.logCompactId # Undefined
            /\ LastSetCall'.queued)
            => EntryOf(messagesToApply', LastSetCall'.logCompactId).queuedAt = now]_vars

\* the entry of u1 was overwritten a millisecond after u2 was queued: u1 is
\* first in the Record, and the flush pushes u2 before it
C28_Witness ==
    /\ sPc = "compact"
    /\ next.logCompactId = "u2"
    /\ Len(newMessages) = 1 /\ newMessages[1].logCompactId = "u1"
    /\ next.queuedAt < newMessages[1].queuedAt
    /\ Len(messagesToApply) = 2 /\ messagesToApply[1].logCompactId = "u1"

\* C30: a compacted payload accepted for an id while the push of an older
\* entry of that id is awaited is still pending once that push has resolved.
C30_AcceptedDuringFlushKept ==
    [][(/\ sPc = "compact"
        /\ Len(pushCalls') > Len(pushCalls)
        /\ IndexOf(messagesToApply, next.logCompactId) # 0
        /\ EntryOf(messagesToApply, next.logCompactId) # next)
            => /\ IndexOf(messagesToApply', next.logCompactId) # 0
               /\ EntryOf(messagesToApply', next.logCompactId)
                      = EntryOf(messagesToApply, next.logCompactId)]_vars

\* C31: the step in which the push of a compacted entry resolves deletes the
\* entry of that id from the Record and sets memoryHash of the id to the hash
\* of the pushed payload; a set call leaves memoryHash as it was.
C31_FlushRecordsHash ==
    /\ [][(sPc = "compact" /\ Len(pushCalls') > Len(pushCalls))
            => /\ IndexOf(messagesToApply', next.logCompactId) = 0
               /\ memoryHash'[next.logCompactId] = hash(next.payload)]_vars
    /\ [][setCalls' # setCalls => memoryHash' = memoryHash]_vars

\* C32: one flush at a time: a triggerWaitingMessages call that finds the lock
\* taken records its time and touches neither the queues nor the flush, and
\* when the flush it found running ends with success another flush starts at
\* once, so that the setter does not go idle with entries still queued.
C32_RetriggerAfterFlush ==
    /\ [][(isProducingMessages /\ (lastTriggered' # lastTriggered
                                    \/ triggeredWhileProducing' # triggeredWhileProducing))
            => /\ lastTriggered' = now
               /\ UNCHANGED <<pushCalls, messagesToPush, messagesToApply, sPc, next,
                              newMessages, isProducingMessages, thisTriggered>>]_vars
    /\ [][(/\ triggeredWhileProducing
            /\ Len(pushCalls') > Len(pushCalls)
            /\ sPc' = "idle")
            => (messagesToPush' = <<>> /\ messagesToApply' = <<>>)]_vars

\* the step in which the awaited push of the flush rejects
C33_Rejection ==
    /\ sPc \in {"append", "compact"}
    /\ next' = NoEntry
    /\ pushCalls' = pushCalls

\* C33: a rejected push aborts the flush with the failed entry and every later
\* one still queued and leaves the lock taken; while the lock waits for its
\* 20 s timer nothing is pushed; the first trigger after the unlock starts with
\* the oldest retained entry; and a lock left by a failure is always released.
C33_FailedFlushRetried ==
    /\ [][C33_Rejection
            => /\ sPc' = "failed" /\ isProducingMessages'
               /\ messagesToApply' = messagesToApply
               /\ sPc = "append" => messagesToPush' = <<next.payload>> \o messagesToPush
               /\ sPc = "compact" => /\ messagesToPush' = messagesToPush
                                     /\ IndexOf(messagesToApply', next.logCompactId) > 0]_vars
    /\ [][sPc = "failed"
            => /\ pushCalls' = pushCalls
               /\ sPc' = "failed" => isProducingMessages'
               /\ sPc' # "failed" => (sPc' = "idle" /\ ~isProducingMessages')]_vars
    /\ [][(~isProducingMessages /\ isProducingMessages')
            => next' = IF messagesToPush # <<>>
                       THEN [logCompactId |-> Undefined, payload |-> Head(messagesToPush),
                             queuedAt |-> -1]
                       ELSE Head(SortByQueuedAt(messagesToApply))]_vars
    /\ (sPc = "failed") ~> ~isProducingMessages

\* a flush has failed with an append and a compacted entry retained, and a
\* trigger has since returned at the lock
C33_Witness ==
    /\ sPc = "failed"
    /\ isProducingMessages
    /\ triggeredWhileProducing
    /\ messagesToPush # <<>>
    /\ messagesToApply # <<>>

\* the hash of the payload of the last record of topic that carries id
LastHashOf(topic, id) ==
    LET at == {i \in 1..Len(topic) : topic[i].logCompactId = id}
    IN  hash(topic[CHOOSE i \in at : \A j \in at : j <= i].payload)

C35_OnePollInFlight ==
    /\ [](isPolling <=> cPc \in {"fetching", "fetched", "delivering"})
    /\ [][isPolling => ~(cPc' = "fetching" /\ cPc # "fetching")]_vars
    /\ [][(isPolling /\ cPc # "delivering")
            => UNCHANGED <<delivered, lastId>>]_vars

\* a second poll is in flight, after one that delivered and released
\* isPolling, with the interval still installed to fire on it
C35_Witness ==
    /\ isPolling
    /\ pollingLoop
    /\ ~isStopped
    /\ cPc = "fetching"
    /\ delivered # <<>>

\* C36: the step in which a find rejects ends the poll with isPolling
\* cleared, leaves lastId and isMoreMessages as they were, calls neither
\* messageCallback nor crashCallback nor noMoreMessagesCallback, stops nothing,
\* and leaves the consumer, unless it was stopped meanwhile, in a state whose
\* next tick polls again from the cursor it had.
C36_FailedFetchRetried ==
    [][fetchErrors' # fetchErrors
        => /\ ~isPolling' /\ cPc' = "idle"
           /\ UNCHANGED <<lastId, isMoreMessages, delivered, crashedCalls, drainedCalls,
                          isStopped, pollingLoop, hasCalledNoMoreMessages>>
           /\ ~isStopped' => (pollingLoop' /\ TickPolls')]_vars

\* a find has rejected and the consumer, streaming from null, has delivered
\* the first message and no other
C36_Witness ==
    /\ fetchErrors > 0
    /\ fromId = NullId
    /\ Len(delivered) = 1
    /\ lastId = 1
    /\ ~isStopped

\* C37: noMoreMessagesCallback is called only in a step taken with
\* isMoreMessages false and no poll in flight, on a consumer that is not
\* stopped; the call is counted once, is never repeated while
\* hasCalledNoMoreMessages stays set, and, whether or not the callback throws,
\* neither stops the consumer nor removes its interval nor calls crashCallback.
C37_DrainedOnlyWhenIdle ==
    /\ [][drainedCalls' # drainedCalls
            => /\ ~isMoreMessages /\ ~isPolling /\ cPc = "idle" /\ ~isStopped
               /\ ~hasCalledNoMoreMessages /\ hasCalledNoMoreMessages'
               /\ drainedCalls' = drainedCalls + 1
               /\ UNCHANGED <<isStopped, pollingLoop, crashedCalls, isPolling, cPc,
                              isMoreMessages, lastId, delivered>>]_vars
    /\ [](drainedCalls <= 1)
    /\ [](~isMoreMessages => (~isPolling /\ batch = <<>>))

\* the callback was called after a delivery, and a wake or a lifecycle event
\* has since set isMoreMessages on the consumer, which is still streaming
C37_Witness ==
    /\ drainedCalls = 1
    /\ delivered # <<>>
    /\ isMoreMessages
    /\ pollingLoop
    /\ ~isStopped

\* the ids of the documents a consumer streaming from fromId is to deliver
C38_Due == {d._id : d \in ThisQuery(fromId)}

\* C38: a find returns at most FetchLimit documents (the source's 100), the
\* lowest ids above the cursor in ascending order, or from the start when the
\* cursor is null; a page that is not empty leaves isMoreMessages set, which
\* only an empty page clears; so a backlog longer than a page is delivered
\* whole, without any wake signal, by the time isMoreMessages is cleared, which
\* does happen; and no message with an id at or below fromId is delivered.
C38_BacklogPaged ==
    /\ [][cPc' = "fetched" /\ cPc = "fetching"
            => LET sorted == SortById(Waiting)
               IN  /\ Len(batch') <= FetchLimit
                   /\ Len(batch') <= Len(sorted)
                   /\ \A i \in 1..Len(batch') : i <= Len(sorted) => batch'[i] = sorted[i]
                   /\ Len(batch') < FetchLimit => Len(batch') = Len(sorted)]_vars
    /\ [][(cPc = "fetched" /\ batch # <<>>) => isMoreMessages']_vars
    /\ [][(isMoreMessages /\ ~isMoreMessages') => (cPc = "fetched" /\ batch = <<>>)]_vars
    /\ []((isStreaming /\ ~isMoreMessages) => DeliveredIds = C38_Due)
    /\ isStreaming ~> ~isMoreMessages
    /\ [](\A i \in 1..Len(delivered) : fromId = NullId \/ delivered[i].id > fromId)

\* a backlog of more messages than a page holds was delivered from null and
\* the consumer has seen its empty page
C38_Witness ==
    /\ fromId = NullId
    /\ Len(delivered) > FetchLimit
    /\ DeliveredIds = {d._id : d \in col}
    /\ ~isMoreMessages

\* C39: streamMessagesFrom is accepted, and the interval installed, only on a
\* consumer whose start() has completed; on a consumer that is new or still
\* starting the call changes nothing but the error it throws, and no find is
\* in flight before start() has completed.
C39_StreamOnlyWhenStarted ==
    /\ [][(isStreaming' /\ ~isStreaming) => cStart = "done"]_vars
    /\ [][(pollingLoop' /\ ~pollingLoop) => cStart = "done"]_vars
    /\ [](cPc = "fetching" => cStart = "done")

\* C40: every 'ready' after a disconnection of a consumer that was not
\* stopped makes it subscribe again, and when the handling of that event ends, with the subscription in
\* place or rejected, isMoreMessages is set.
C40_ReconnectWakes ==
    /\ [][(link = "down" /\ link' \notin {"down", "closed"}) => link' = "resub"]_vars
    /\ [][(link = "resub" /\ link' \in {"up", "ready", "down"}) => isMoreMessages']_vars

====
